---------------------------- MODULE Spec2Model ----------------------------
(***************************************************************************)
(* A model of the numerical core of geos: the n-vector transform and lerp  *)
(* (nvec.rs, geom.rs), the bounding-box sweep partition_region (geom.rs)   *)
(* and the samplers (samplers.rs).                                         *)
(*                                                                         *)
(* Arithmetic.  The program computes in IEEE-754 binary64.  Two models of  *)
(* it are used:                                                            *)
(*  - the sweep counters fx, fy of partition_region, whose rounding        *)
(*    decides how many cells are produced, are exact binary64 values       *)
(*    (a sign, an exponent and 53 mantissa bits; operators X...);          *)
(*  - the geometry (n-vectors, trigonometry, areas) is computed in a       *)
(*    binary floating-point format of the same shape with a MantBits-bit   *)
(*    mantissa, round-to-nearest-even, signed zeros, infinities and NaN,   *)
(*    and the exponent range of binary64 (operators F...).                 *)
(* TLC's integers are 32 bits wide, so every intermediate value of the     *)
(* operators below stays under 2^31.                                       *)
(***************************************************************************)
EXTENDS Integers, Sequences, FiniteSets, TLC

(***************************************************************************)
(* The floating-point format.  Every operator takes what it needs as a     *)
(* parameter, so that each intermediate value is computed once.            *)
(***************************************************************************)
\* Mantissa width of the geometry format.  binary64 has 53; 23 keeps every
\* product within 32 bits and, like 53, rounds pi and pi/180 * 180 below pi
\* (so sin(to_radians(180)) > 0 and cos(to_radians(90)) > 0, as in binary64).
MantBits == 23
\* Largest and smallest exponent of a normal binary64 number.
EMax == 1023
EMin == -1022
\* Width of one multiplication / division chunk.
ChunkBits == 7

Pow2(k) == 2^k

RECURSIVE BitLen(_)
BitLen(n) == IF n = 0 THEN 0 ELSE 1 + BitLen(n \div 2)

FZero(s) == [k |-> "fin", s |-> s, m |-> 0, e |-> 0]
FInf(s)  == [k |-> "inf", s |-> s, m |-> 0, e |-> 0]
FNaN     == [k |-> "nan", s |-> 1, m |-> 0, e |-> 0]

IsNaN(a)    == a.k = "nan"
IsInf(a)    == a.k = "inf"
IsFinite(a) == a.k = "fin"
IsZero(a)   == a.k = "fin" /\ a.m = 0

\* A normalised mantissa and exponent, with overflow to infinity and
\* underflow flushed to zero.
FPack(s, m, e) ==
  IF e + MantBits - 1 > EMax THEN FInf(s)
  ELSE IF e + MantBits - 1 < EMin THEN FZero(s)
  ELSE [k |-> "fin", s |-> s, m |-> m, e |-> e]

\* The rounded mantissa m (at most 2^MantBits) at exponent e.
RoundCarry(s, m, e) ==
  FPack(s, IF m = Pow2(MantBits) THEN Pow2(MantBits - 1) ELSE m,
           IF m = Pow2(MantBits) THEN e + 1 ELSE e)

\* Quotient q and remainder r of the mantissa by 2 * half: to nearest, ties
\* to even.
RoundNearest(s, q, r, half, e, sticky) ==
  RoundCarry(s, IF r > half \/ (r = half /\ (sticky \/ q % 2 = 1)) THEN q + 1 ELSE q, e)

\* n of L bits at exponent e.
RoundBits(s, n, e, sticky, L) ==
  IF L <= MantBits
  THEN FPack(s, n * Pow2(MantBits - L), e - (MantBits - L))
  ELSE RoundNearest(s, n \div Pow2(L - MantBits), n % Pow2(L - MantBits),
                    Pow2(L - MantBits - 1), e + (L - MantBits), sticky)

\* s * n * 2^e (plus a non-zero remainder below n's last bit when sticky),
\* rounded to nearest, ties to even.
FRound(s, n, e, sticky) ==
  IF n = 0 THEN FZero(s) ELSE RoundBits(s, n, e, sticky, BitLen(n))

\* s * p.v * 2^e, p.st telling of a remainder.
FRoundP(s, p, e) == FRound(s, p.v, e, p.st)

\* An integer literal (|i| < 2^31) as a float.
FInt(i) == FRound(IF i < 0 THEN -1 ELSE 1, IF i < 0 THEN -i ELSE i, 0, FALSE)

FNeg(a) == IF IsNaN(a) THEN a ELSE [a EXCEPT !.s = -a.s]
FAbs(a) == IF IsNaN(a) THEN a ELSE [a EXCEPT !.s = 1]
WithSign(s, a) == IF s = -1 THEN FNeg(a) ELSE a

\* Magnitude comparison of two finite non-zero normalised floats.
MagLt(a, b) == a.e < b.e \/ (a.e = b.e /\ a.m < b.m)

\* hi + lo from the sum of their aligned mantissas (three guard bits).
AddSum(hi, lo, sum, st) ==
  IF sum = 0 THEN FZero(1)
  ELSE FRound(IF sum < 0 THEN lo.s ELSE hi.s, IF sum < 0 THEN -sum ELSE sum, hi.e - 3, st)

\* nlo is lo's mantissa aligned to hi's exponent, st tells of bits lost.
AddAligned(hi, lo, nlo, st) ==
  AddSum(hi, lo,
         IF hi.s = lo.s THEN hi.m * 8 + nlo
         ELSE IF st THEN hi.m * 8 - (nlo + 1) ELSE hi.m * 8 - nlo,
         st)

\* hi + lo for finite non-zero hi, lo with hi.e >= lo.e.
AddOrdered(hi, lo) ==
  IF hi.e - lo.e > MantBits + 2 THEN hi
  ELSE AddAligned(hi, lo, (lo.m * 8) \div Pow2(hi.e - lo.e),
                  ((lo.m * 8) % Pow2(hi.e - lo.e)) # 0)

FAdd(a, b) ==
  IF IsNaN(a) \/ IsNaN(b) THEN FNaN
  ELSE IF IsInf(a) THEN (IF IsInf(b) /\ b.s # a.s THEN FNaN ELSE a)
  ELSE IF IsInf(b) THEN b
  ELSE IF a.m = 0 /\ b.m = 0 THEN (IF a.s = -1 /\ b.s = -1 THEN FZero(-1) ELSE FZero(1))
  ELSE IF a.m = 0 THEN b
  ELSE IF b.m = 0 THEN a
  ELSE AddOrdered(IF a.e >= b.e THEN a ELSE b, IF a.e >= b.e THEN b ELSE a)

FSub(a, b) == FAdd(a, FNeg(b))

\* floor(a * b / 2^(3*ChunkBits)) and whether a remainder is left, for
\* mantissas a, b < 2^MantBits: k more chunks of b, x the sum so far.
RECURSIVE MulShift(_, _, _, _, _)
MulShift(a, b, k, x, st) ==
  IF k = 0 THEN [v |-> x, st |-> st]
  ELSE MulShift(a, b \div Pow2(ChunkBits), k - 1,
                (a * (b % Pow2(ChunkBits))) + (x \div Pow2(ChunkBits)),
                st \/ (x % Pow2(ChunkBits)) # 0)

FMul(a, b) ==
  IF IsNaN(a) \/ IsNaN(b) THEN FNaN
  ELSE IF (IsInf(a) /\ IsZero(b)) \/ (IsZero(a) /\ IsInf(b)) THEN FNaN
  ELSE IF IsInf(a) \/ IsInf(b) THEN FInf(a.s * b.s)
  ELSE IF a.m = 0 \/ b.m = 0 THEN FZero(a.s * b.s)
  ELSE FRoundP(a.s * b.s,
               MulShift(a.m, b.m \div Pow2(ChunkBits), 3, a.m * (b.m % Pow2(ChunkBits)), FALSE),
               a.e + b.e + 3 * ChunkBits)

\* Long division: k more chunks of the quotient of r / b, q so far.
RECURSIVE LongDiv(_, _, _, _)
LongDiv(r, b, k, q) ==
  IF k = 0 THEN [v |-> q, st |-> r # 0]
  ELSE LongDiv((r * Pow2(ChunkBits)) % b, b, k - 1,
               (q * Pow2(ChunkBits)) + ((r * Pow2(ChunkBits)) \div b))

FDiv(a, b) ==
  IF IsNaN(a) \/ IsNaN(b) THEN FNaN
  ELSE IF IsInf(a) THEN (IF IsInf(b) THEN FNaN ELSE FInf(a.s * b.s))
  ELSE IF IsInf(b) THEN FZero(a.s * b.s)
  ELSE IF b.m = 0 THEN (IF a.m = 0 THEN FNaN ELSE FInf(a.s * b.s))
  ELSE IF a.m = 0 THEN FZero(a.s * b.s)
  ELSE FRoundP(a.s * b.s, LongDiv(a.m % b.m, b.m, 4, a.m \div b.m),
               a.e - b.e - 4 * ChunkBits)

\* Comparisons; every comparison with NaN is false, -0 = +0.
FLt(a, b) ==
  IF IsNaN(a) \/ IsNaN(b) THEN FALSE
  ELSE IF IsZero(a) /\ IsZero(b) THEN FALSE
  ELSE IF IsZero(a) THEN b.s = 1
  ELSE IF IsZero(b) THEN a.s = -1
  ELSE IF a.s # b.s THEN a.s = -1
  ELSE IF IsInf(a) \/ IsInf(b)
       THEN (IF a.s = 1 THEN (~IsInf(a) /\ IsInf(b)) ELSE (IsInf(a) /\ ~IsInf(b)))
  ELSE IF a.s = 1 THEN MagLt(a, b) ELSE MagLt(b, a)

FEq(a, b) ==
  IF IsNaN(a) \/ IsNaN(b) THEN FALSE
  ELSE (IsZero(a) /\ IsZero(b)) \/ a = b

FLe(a, b) == FLt(a, b) \/ FEq(a, b)
FGe(a, b) == FLe(b, a)
FGt(a, b) == FLt(b, a)

\* f64::min / f64::max as used by Rect::new on finite coordinates.
FMin(a, b) == IF FLt(b, a) THEN b ELSE a
FMax(a, b) == IF FLt(a, b) THEN b ELSE a

FOne  == FInt(1)
FHalf == FRound(1, 1, -1, FALSE)

RECURSIVE ISqrt(_)
ISqrt(n) ==
  IF n < 2 THEN n
  ELSE LET s == 2 * ISqrt(n \div 4)
       IN IF (s + 1) * (s + 1) <= n THEN s + 1 ELSE s

\* One Newton step towards sqrt(a) from x.
Newton(a, x) == FMul(FHalf, FAdd(x, FDiv(a, x)))

\* The square root of m * 2^e, e even: an integer square root of the
\* leading bits, refined by two Newton steps.
SqrtEven(a, m, e) ==
  Newton(a, Newton(a, FRound(1, ISqrt(m * 64), (e - 6) \div 2, FALSE)))

\* f64::sqrt
FSqrt(a) ==
  IF IsNaN(a) THEN FNaN
  ELSE IF IsZero(a) THEN a
  ELSE IF a.s = -1 THEN FNaN
  ELSE IF IsInf(a) THEN a
  ELSE SqrtEven(a, IF a.e % 2 = 1 THEN a.m * 2 ELSE a.m,
                   IF a.e % 2 = 1 THEN a.e - 1 ELSE a.e)

(***************************************************************************)
(* The library functions the program calls on f64: sin, cos, atan2.  Each  *)
(* is the mathematical function of its (exactly taken) argument, computed  *)
(* in the geometry format to within a few units in the last place, with    *)
(* the special cases of IEEE-754 / C99 (signed zeros, infinities, NaN).    *)
(***************************************************************************)
\* std::f64::consts::PI: pi rounded to the format; PiLo is pi - PI rounded.
PI   == [k |-> "fin", s |-> 1, m |-> 6588397, e |-> -21]
PiLo == [k |-> "fin", s |-> 1, m |-> 5312692, e |-> -45]
Pio2   == [PI EXCEPT !.e = @ - 1]
Pio2Lo == [PiLo EXCEPT !.e = @ - 1]
Pio4   == [PI EXCEPT !.e = @ - 2]

\* The integer part of a finite h >= 0.
Floor(h) ==
  IF h.m = 0 THEN 0
  ELSE IF h.e >= 0 THEN h.m * Pow2(h.e)
  ELSE IF -h.e > 30 THEN 0
  ELSE h.m \div Pow2(-h.e)

\* The integer nearest to a finite a with 0 <= a < 2^MantBits.
FNearestInt(a) == Floor(FAdd(a, FHalf))

\* The reciprocals 1/d of a sequence of integers d.
Recips(ds) == [i \in 1..Len(ds) |-> FDiv(FOne, FInt(ds[i]))]

\* cs[i] + z * (cs[i+1] + z * (... + z * cs[Len(cs)]))
RECURSIVE Horner(_, _, _)
Horner(cs, z, i) ==
  IF i = Len(cs) THEN cs[i] ELSE FAdd(cs[i], FMul(z, Horner(cs, z, i + 1)))

\* sin and cos on [-pi/4, pi/4] by their Taylor polynomials, z = x * x.
SinPoly(x, z) ==
  FAdd(x, FMul(FMul(x, z), Horner(Recips(<<-6, 120, -5040, 362880>>), z, 1)))
CosPoly(z) ==
  FAdd(FOne, FMul(z, Horner(Recips(<<-2, 24, -720, 40320, -3628800>>), z, 1)))
SinK(x) == SinPoly(x, FMul(x, x))
CosK(x) == CosPoly(FMul(x, x))

\* a = n * pi/2 + x, pi/2 taken as Pio2 + Pio2Lo.
ReduceBy(a, n) ==
  [n |-> n % 4, x |-> FSub(FSub(a, FMul(FInt(n), Pio2)), FMul(FInt(n), Pio2Lo))]

\* Argument reduction of a >= 0: a = n * pi/2 + x with |x| <= pi/4.
\* Arguments of 2^(MantBits-1) and beyond are not reduced (the program
\* passes radians of coordinates, at most a few multiples of pi).
Reduce(a) == ReduceBy(a, IF a.e >= 0 THEN 0 ELSE FNearestInt(FDiv(a, Pio2)))

\* sin(k * pi/2 + x) for |x| <= pi/4.
Quadrant(k, x) ==
  WithSign(IF k >= 2 THEN -1 ELSE 1, IF k % 2 = 0 THEN SinK(x) ELSE CosK(x))

\* sin(|r| + shift * pi/2) for a finite non-zero r.
ShiftedSin(q, shift) == Quadrant((q.n + shift) % 4, q.x)

\* f64::sin
FSin(r) ==
  IF IsNaN(r) \/ IsInf(r) THEN FNaN
  ELSE IF IsZero(r) THEN r
  ELSE WithSign(r.s, ShiftedSin(Reduce(FAbs(r)), 0))

\* f64::cos
FCos(r) ==
  IF IsNaN(r) \/ IsInf(r) THEN FNaN
  ELSE IF IsZero(r) THEN FOne
  ELSE ShiftedSin(Reduce(FAbs(r)), 1)

\* atan on [-tan(pi/8), tan(pi/8)] by its Taylor polynomial, z = w * w.
AtanPoly(w, z) ==
  FAdd(w, FMul(FMul(w, z), Horner(Recips(<<-3, 5, -7, 9, -11, 13, -15, 17>>), z, 1)))
AtanK(w) == AtanPoly(w, FMul(w, w))

\* tan(pi/8) = sqrt(2) - 1
TanPio8 == FSub(FSqrt(FInt(2)), FOne)

\* atan(z) = pi/4 + atan((z - 1) / (z + 1)) when shifted.
AtanShift(shifted, a) == IF shifted THEN FAdd(Pio4, a) ELSE a

\* atan on [0, 1]
Atan01(z) ==
  AtanShift(~FLe(z, TanPio8),
            AtanK(IF FLe(z, TanPio8) THEN z ELSE FDiv(FSub(z, FOne), FAdd(z, FOne))))

\* atan(ay / ax) for finite ay, ax > 0, from a = atan(min / max).
AtanFold(le, a) == IF le THEN a ELSE FAdd(FSub(Pio2, a), Pio2Lo)
AtanAbs(ay, ax) == AtanFold(FLe(ay, ax), Atan01(FDiv(FMin(ay, ax), FMax(ay, ax))))

\* The angle a of (|x|, |y|) moved to the half plane of x.
AtanHalfPlane(xs, a) == IF xs = -1 THEN FAdd(FSub(PI, a), PiLo) ELSE a

\* f64::atan2(y, x)
FAtan2(y, x) ==
  IF IsNaN(y) \/ IsNaN(x) THEN FNaN
  ELSE IF IsInf(y)
       THEN (IF IsInf(x)
             THEN WithSign(y.s, IF x.s = 1 THEN Pio4 ELSE FMul(FInt(3), Pio4))
             ELSE WithSign(y.s, Pio2))
  ELSE IF IsInf(x) THEN WithSign(y.s, IF x.s = 1 THEN FZero(1) ELSE PI)
  ELSE IF y.m = 0 THEN WithSign(y.s, IF x.s = 1 THEN FZero(1) ELSE PI)
  ELSE IF x.m = 0 THEN WithSign(y.s, Pio2)
  ELSE WithSign(y.s, AtanHalfPlane(x.s, AtanAbs(FAbs(y), FAbs(x))))

(***************************************************************************)
(* nvec.rs: n-vectors and their conversion from and to coordinates.  A     *)
(* Coord is [x |-> longitude, y |-> latitude] in degrees.                  *)
(***************************************************************************)
Coord(x, y) == [x |-> x, y |-> y]
NVec(x, y, z) == [x |-> x, y |-> y, z |-> z]

\* const CONVERT: f64 = PI / 180.0
to_radians(angle) == FMul(FDiv(PI, FInt(180)), angle)
\* const CONVERT: f64 = 180.0 / PI
to_angle(rad) == FMul(FDiv(FInt(180), PI), rad)

\* The vector without the factor cos_lat in x and y.
FromRadians_flat(lng, lat, cos_lat) == NVec(FCos(lng), FSin(lng), FSin(lat))

\* The n-vector of longitude lng and latitude lat (radians), cos_lat = lat.cos().
FromRadians(lng, lat, cos_lat) ==
  NVec(FMul(FCos(lng), cos_lat), FMul(FSin(lng), cos_lat), FSin(lat))

\* The conversion with longitude and latitude exchanged.
FromCoord_swapped(c) ==
  FromRadians(to_radians(c.y), to_radians(c.x), FCos(to_radians(c.x)))
\* impl From<Coord> for NVec
FromCoord(c) == FromRadians(to_radians(c.x), to_radians(c.y), FCos(to_radians(c.y)))

\* The conversion taking the latitude from z alone, as if v had norm 1.
IntoCoord_unit(v) ==
  Coord(to_angle(FAtan2(v.y, v.x)), to_angle(FAtan2(v.z, FOne)))
\* impl Into<Coord> for NVec
IntoCoord(v) ==
  Coord(to_angle(FAtan2(v.y, v.x)),
        to_angle(FAtan2(v.z, FSqrt(FAdd(FMul(v.y, v.y), FMul(v.x, v.x))))))

\* The sum of the components in place of the Euclidean norm.
norm_unsquared(v) == FAdd(FAdd(v.x, v.y), v.z)
\* NVec::norm (s2::r3::vector::Vector::norm = sqrt of the dot product)
norm(v) == FSqrt(FAdd(FAdd(FMul(v.x, v.x), FMul(v.y, v.y)), FMul(v.z, v.z)))

\* impl Mul<NVec> for f64 / impl Mul<f64> for NVec
Scale(k, v) == NVec(FMul(k, v.x), FMul(k, v.y), FMul(k, v.z))
\* impl Add for NVec
VAdd(a, b) == NVec(FAdd(a.x, b.x), FAdd(a.y, b.y), FAdd(a.z, b.z))

(***************************************************************************)
(* geom.rs: lerp                                                           *)
(***************************************************************************)
\* The literal 1e-8
Epsilon == FDiv(FOne, FInt(100000000))

\* nv.norm() + 1e-8
Divisor(nv) == FAdd(norm(nv), Epsilon)

\* nv / (nv.norm() + 1e-8)
Normalized(nv) == Scale(FDiv(FOne, Divisor(nv)), nv)

\* (1 - t) * nvec_c1 + t * nvec_c2
Blend(t, nvec_c1, nvec_c2) == VAdd(Scale(FSub(FOne, t), nvec_c1), Scale(t, nvec_c2))

lerp(t, c1, c2) == IntoCoord(Normalized(Blend(t, FromCoord(c1), FromCoord(c2))))

(***************************************************************************)
(* Exact binary64 values for the sweep counters.  The 53-bit mantissa M    *)
(* (2^52 <= M < 2^53) is held in two limbs, M = hi * 2^27 + lo, and the    *)
(* value is s * M * 2^(e - 52); zero has hi = lo = 0.                      *)
(***************************************************************************)
\* Width of the low limb; the high limb holds the other 26 bits.
LimbBits == 27
Limb == Pow2(LimbBits)

XZero == [s |-> 1, hi |-> 0, lo |-> 0, e |-> 0]
XIsZero(x) == x.hi = 0 /\ x.lo = 0

RECURSIVE HexToInt(_, _)
HexToInt(ds, acc) == IF ds = <<>> THEN acc ELSE HexToInt(Tail(ds), 16 * acc + Head(ds))

\* The binary64 value written 0x1.<13 hex digits>p<e> (Rust's {:x?} / C's %a).
XHex(s, ds, e) ==
  [s  |-> s,
   hi |-> 2 * HexToInt(SubSeq(ds, 1, 6), 1) + (ds[7] \div 8),
   lo |-> HexToInt(SubSeq(ds, 8, 13), ds[7] % 8),
   e  |-> e]

\* The sum that leaves its first operand as it is.
XAdd_absorbed(x, y) == x

\* The two-limb integer [hi, lo] shifted right by d bits, with the sticky
\* flag st telling whether a non-zero bit was shifted out.
ShiftR(hi, lo, d) ==
  IF d = 0 THEN [hi |-> hi, lo |-> lo, st |-> FALSE]
  ELSE IF d < LimbBits
  THEN [hi |-> hi \div Pow2(d),
        lo |-> (hi % Pow2(d)) * Pow2(LimbBits - d) + (lo \div Pow2(d)),
        st |-> lo % Pow2(d) # 0]
  ELSE IF d - LimbBits > 30 THEN [hi |-> 0, lo |-> 0, st |-> hi # 0 \/ lo # 0]
  ELSE [hi |-> 0,
        lo |-> hi \div Pow2(d - LimbBits),
        st |-> lo # 0 \/ hi % Pow2(d - LimbBits) # 0]

\* s * (hi * 2^27 + lo) * 2^(e - 54), a sum carrying two guard bits (55 or
\* 56 bits long), rounded to 53 bits, to nearest, ties to even.
XRound(s, hi, lo, e, st) ==
  LET r    == IF hi >= Pow2(28) THEN 3 ELSE 2
      q    == ShiftR(hi, lo, r)
      rem  == lo % Pow2(r)
      half == Pow2(r - 1)
      up   == rem > half \/ (rem = half /\ (st \/ q.lo % 2 = 1))
      lo1  == IF up THEN q.lo + 1 ELSE q.lo
      hi1  == q.hi + (lo1 \div Limb)
      lo2  == lo1 % Limb
  IN IF hi1 = Pow2(26)
     THEN [s |-> s, hi |-> Pow2(25), lo |-> 0, e |-> e + r - 1]
     ELSE [s |-> s, hi |-> hi1, lo |-> lo2, e |-> e + r - 2]

\* x + y in binary64, for x and y of equal sign or zero: the program adds
\* edge_proportion to a counter that is a sum of edge_proportions.
XAdd(x, y) ==
  IF XIsZero(x) THEN y
  ELSE IF XIsZero(y) THEN x
  ELSE LET big == IF x.e >= y.e THEN x ELSE y
           sml == IF x.e >= y.e THEN y ELSE x
           d   == big.e - sml.e
           t   == ShiftR(4 * sml.hi + ((4 * sml.lo) \div Limb), (4 * sml.lo) % Limb, d)
           lo  == ((4 * big.lo) % Limb) + t.lo
           hi  == 4 * big.hi + ((4 * big.lo) \div Limb) + t.hi + (lo \div Limb)
       IN XRound(big.s, hi, lo % Limb, big.e, t.st)

\* Magnitude comparison of non-zero values.
XMagLt(x, y) ==
  \/ x.e < y.e
  \/ x.e = y.e /\ (x.hi < y.hi \/ (x.hi = y.hi /\ x.lo < y.lo))

\* x < y
XLt(x, y) ==
  IF XIsZero(x) /\ XIsZero(y) THEN FALSE
  ELSE IF XIsZero(x) THEN y.s = 1
  ELSE IF XIsZero(y) THEN x.s = -1
  ELSE IF x.s # y.s THEN x.s = -1
  ELSE IF x.s = 1 THEN XMagLt(x, y) ELSE XMagLt(y, x)

\* f64::max
XMax(x, y) == IF XLt(x, y) THEN y ELSE x

\* The binary64 value x in the geometry format (rounded to MantBits bits).
XToF(x) == IF XIsZero(x) THEN FZero(x.s) ELSE FRound(x.s, x.hi, x.e - 25, x.lo # 0)

\* 1.0
XOne == XHex(1, <<0, 0, 0, 0, 0, 0, 0, 0, 0, 0, 0, 0, 0>>, 0)

(***************************************************************************)
(* The geometry library (geo, geo_types) as the program uses it.  A        *)
(* Polygon is given by the axis-aligned rectangles, with disjoint          *)
(* interiors, whose union it is; on such polygons bounding_rect,           *)
(* intersects, intersection and unsigned_area are computed from the        *)
(* coordinates.                                                            *)
(***************************************************************************)
Line(start, end) == [start |-> start, end |-> end]

\* geo_types::Rect::new: the two corners, ordered per axis.
Rect_new(c1, c2) ==
  [min |-> Coord(IF FLt(c1.x, c2.x) THEN c1.x ELSE c2.x, IF FLt(c1.y, c2.y) THEN c1.y ELSE c2.y),
   max |-> Coord(IF FLt(c1.x, c2.x) THEN c2.x ELSE c1.x, IF FLt(c1.y, c2.y) THEN c2.y ELSE c1.y)]

IntRect(x0, y0, x1, y1) == Rect_new(Coord(FInt(x0), FInt(y0)), Coord(FInt(x1), FInt(y1)))

\* The least / greatest of a non-empty set of finite floats.
FMinOf(S) == CHOOSE a \in S : \A b \in S : FLe(a, b)
FMaxOf(S) == CHOOSE a \in S : \A b \in S : FLe(b, a)

\* Polygon::bounding_rect().unwrap()
bounding_rect(poly) ==
  LET I == 1..Len(poly.parts)
  IN [min |-> Coord(FMinOf({poly.parts[i].min.x : i \in I}), FMinOf({poly.parts[i].min.y : i \in I})),
      max |-> Coord(FMaxOf({poly.parts[i].max.x : i \in I}), FMaxOf({poly.parts[i].max.y : i \in I}))]

\* Two closed rectangles meet.
RectsMeet(r, q) ==
  /\ FLe(r.min.x, q.max.x) /\ FLe(q.min.x, r.max.x)
  /\ FLe(r.min.y, q.max.y) /\ FLe(q.min.y, r.max.y)

\* Rect::intersects(&Polygon)
intersects(rect, poly) == \E i \in 1..Len(poly.parts) : RectsMeet(rect, poly.parts[i])

\* Rect::unsigned_area: width * height
rect_area(r) == FMul(FSub(r.max.x, r.min.x), FSub(r.max.y, r.min.y))

\* The area two rectangles share.
OverlapArea(r, q) ==
  LET w == FSub(FMin(r.max.x, q.max.x), FMax(r.min.x, q.min.x))
      h == FSub(FMin(r.max.y, q.max.y), FMax(r.min.y, q.min.y))
  IN IF FGt(w, FZero(1)) /\ FGt(h, FZero(1)) THEN FMul(w, h) ELSE FZero(1)

\* polygon.intersection(&rect.to_polygon()).unsigned_area()
RECURSIVE intersection_area(_, _, _)
intersection_area(poly, rect, i) ==
  IF i = 0 THEN FZero(1)
  ELSE FAdd(intersection_area(poly, rect, i - 1), OverlapArea(rect, poly.parts[i]))

(***************************************************************************)
(* The inputs of partition_region.  A polygon is the union of its parts,   *)
(* axis-aligned rectangles with disjoint interiors; holes are the          *)
(* rectangles of its bounding box that it leaves out.                      *)
(***************************************************************************)
\* POLYGON((0 0, 10 0, 10 10, 0 10, 0 0)): fills its bounding box.
Square == [parts |-> <<IntRect(0, 0, 10, 10)>>, holes |-> {}]
\* POLYGON((0 0, 10 0, 10 4, 4 4, 4 10, 0 10, 0 0)): an L.
LShape == [parts |-> <<IntRect(0, 0, 10, 4), IntRect(0, 4, 4, 10)>>,
           holes |-> {IntRect(4, 4, 10, 10)}]
\* POLYGON((0 50, 40 50, 40 70, 0 70, 0 50)): wide, at a high latitude.
WideSquare == [parts |-> <<IntRect(0, 50, 40, 70)>>, holes |-> {}]
Polygons == {Square, LShape, WideSquare}

\* Option<f64>
None == [some |-> FALSE, v |-> FZero(1)]
Some(v) == [some |-> TRUE, v |-> v]
Thresholds == {None, Some(FZero(1)), Some(FNeg(FHalf)), Some(FHalf), Some(FOne)}

\* edge_proportion: 0.0, -0.5, 0.5, 1/3, 0.33, 0.3, 1.0, 2.0 as binary64.
XHalf   == XHex(1, <<0, 0, 0, 0, 0, 0, 0, 0, 0, 0, 0, 0, 0>>, -1)
XThird  == XHex(1, <<5, 5, 5, 5, 5, 5, 5, 5, 5, 5, 5, 5, 5>>, -2)
X033    == XHex(1, <<5, 1, 14, 11, 8, 5, 1, 14, 11, 8, 5, 1, 15>>, -2)
X03     == XHex(1, <<3, 3, 3, 3, 3, 3, 3, 3, 3, 3, 3, 3, 3>>, -2)
XTwo    == XHex(1, <<0, 0, 0, 0, 0, 0, 0, 0, 0, 0, 0, 0, 0>>, 1)
XNegHalf == [XHalf EXCEPT !.s = -1]
EdgeProportions == {XZero, XNegHalf, XHalf, XThird, X033, X03, XOne, XTwo}

\* How many inner steps of a sweep that never ends (fy += edge_proportion
\* does not increase fy) are followed.
MaxSteps == 3

(***************************************************************************)
(* geom.rs: partition_region, one action per step of its two loops.        *)
(***************************************************************************)
VARIABLES
  pc,               \* where the call stands
  polygon,          \* partition_region: its arguments
  edge_proportion,
  area_threshold,
  fx, fy,           \* its locals
  lp_prev, lp,
  partitions,
  candidates,       \* history: the cells examined so far, in order
  steps,            \* history: the number of inner steps taken
  sweep,            \* history: the passes made, see NoSweep
  args,             \* lerp, samplers: the arguments of the call
  sampler,          \* the PolygonalSampler constructed
  result,           \* lerp, sample_coord: the value returned
  runs,             \* handle_rand_subcommand: two calls side by side
  drawn             \* history: what was drawn for the last sample, see NoDraw

partVars == <<polygon, edge_proportion, area_threshold, fx, fy, lp_prev, lp,
              partitions, candidates, steps, sweep>>
callVars == <<args, sampler, result, runs, drawn>>
vars == <<pc, partVars, callVars>>

NoArgs == [none |-> TRUE]
NoSampler == [none |-> TRUE]
NoResult == [none |-> TRUE]
NoRuns == [none |-> TRUE]
\* i: the index the table drew; u1, u2: the two draws from [0, 1].
NoDraw == [i |-> 0, u1 |-> FZero(1), u2 |-> FZero(1)]
\* i: the outer passes completed; j: the inner steps taken in the current
\* outer pass; grid: for each candidate, in order, the <<i, j>> it was made at.
NoSweep == [i |-> 0, j |-> 0, grid |-> <<>>]

bbox == bounding_rect(polygon)
\* The budget left unclamped, as edge_proportion itself.
edge_budget_unclamped == edge_proportion
\* let edge_budget = f64::max(1.0, edge_proportion)
edge_budget == XMax(XOne, edge_proportion)
\* Bounding box corners.
c0 == bbox.min
c1 == Coord(bbox.min.x, bbox.max.y)
c2 == bbox.max
c3 == Coord(bbox.max.x, bbox.min.y)
\* Forward axes.
l01_lerp(t) == lerp(t, c0, c1)
l32_lerp(t) == lerp(t, c3, c2)

NoLine == Line(Coord(FZero(1), FZero(1)), Coord(FZero(1), FZero(1)))

Init ==
  /\ pc = "entry"
  /\ polygon \in Polygons
  /\ edge_proportion \in EdgeProportions
  /\ area_threshold \in Thresholds
  /\ fx = XZero /\ fy = XZero
  /\ lp_prev = NoLine /\ lp = NoLine
  /\ partitions = <<>> /\ candidates = <<>> /\ steps = 0 /\ sweep = NoSweep
  /\ args = NoArgs /\ sampler = NoSampler /\ result = NoResult /\ runs = NoRuns /\ drawn = NoDraw

\* Lines 81-109: the locals before the outer loop.
Enter ==
  /\ pc = "entry"
  /\ fx' = XZero
  /\ lp_prev' = Line(c0, c3)
  /\ pc' = "outer"
  /\ UNCHANGED <<callVars, polygon, edge_proportion, area_threshold, fy, lp, partitions, candidates, steps, sweep>>

\* Lines 110-119: the outer loop's test passes; lp and fy are set.
OuterStep ==
  /\ pc = "outer"
  /\ XLt(fx, edge_budget)
  /\ lp' = Line(l01_lerp(XToF(XAdd(fx, edge_proportion))),
                l32_lerp(XToF(XAdd(fx, edge_proportion))))
  /\ fy' = XZero
  /\ pc' = "inner"
  /\ sweep' = [sweep EXCEPT !.j = 0]
  /\ UNCHANGED <<callVars, polygon, edge_proportion, area_threshold, fx, lp_prev, partitions, candidates, steps>>

\* The cell with both corners taken on the line lp.
partition_same_line ==
  Rect_new(lerp(XToF(fy), lp.start, lp.end),
           lerp(XToF(XAdd(fy, edge_proportion)), lp.start, lp.end))

\* Lines 122-125: the candidate cell of the current fx, fy.
partition ==
  Rect_new(lerp(XToF(fy), lp_prev.start, lp_prev.end),
           lerp(XToF(XAdd(fy, edge_proportion)), lp.start, lp.end))

\* Lines 129-145: the selection criterion.
area_ratio(poly, cell) ==
  FDiv(intersection_area(poly, cell, Len(poly.parts)), rect_area(cell))

\* The criterion with a strict comparison against the threshold.
Selected_strict(poly, cell, threshold) ==
  IF threshold.some
  THEN FGt(area_ratio(poly, cell), threshold.v)
  ELSE intersects(cell, poly)

\* The criterion keeping every cell when no threshold is given.
Selected_always(poly, cell, threshold) ==
  IF threshold.some
  THEN FGe(area_ratio(poly, cell), threshold.v)
  ELSE TRUE

Selected(poly, cell, threshold) ==
  IF threshold.some
  THEN FGe(area_ratio(poly, cell), threshold.v)
  ELSE intersects(cell, poly)

\* The vector with the cell put in front of it.
push_front(v, cell) == <<cell>> \o v
\* Vec::push
push(v, cell) == Append(v, cell)

\* main.rs line 316, in the copy of partition_region that takes a Geometry:
\* geometry.clone().try_into().unwrap() on a geometry that is no Polygon.
UnwrapFails ==
  args # NoArgs /\ args.handler = "main" /\ args.kind # "Polygon" /\ area_threshold.some

\* Lines 120-147: one pass of the inner loop.
InnerStep ==
  /\ pc = "inner"
  /\ XLt(fy, edge_budget)
  /\ ~UnwrapFails
  /\ XLt(fy, XAdd(fy, edge_proportion)) \/ steps < MaxSteps
  /\ \E cell \in {partition} :
       /\ partitions' = IF Selected(polygon, cell, area_threshold)
                        THEN push(partitions, cell) ELSE partitions
       /\ candidates' = Append(candidates, cell)
  /\ fy' = XAdd(fy, edge_proportion)
  /\ steps' = steps + 1
  /\ sweep' = [sweep EXCEPT !.j = @ + 1, !.grid = Append(@, <<sweep.i, sweep.j>>)]
  /\ UNCHANGED <<callVars, pc, polygon, edge_proportion, area_threshold, fx, lp_prev, lp>>

\* Lines 120, 149-150: the inner loop ends; fx and lp_prev advance.
InnerExit ==
  /\ pc = "inner"
  /\ ~XLt(fy, edge_budget)
  /\ fx' = XAdd(fx, edge_proportion)
  /\ lp_prev' = lp
  /\ pc' = "outer"
  /\ sweep' = [sweep EXCEPT !.i = @ + 1]
  /\ UNCHANGED <<callVars, polygon, edge_proportion, area_threshold, fy, lp, partitions, candidates, steps>>

\* Lines 110, 153: the outer loop ends; partitions is returned.
Return ==
  /\ pc = "outer"
  /\ ~XLt(fx, edge_budget)
  /\ pc' = "done"
  /\ UNCHANGED <<callVars, polygon, edge_proportion, area_threshold, fx, fy, lp_prev, lp, partitions, candidates, steps, sweep>>

Next == Enter \/ OuterStep \/ InnerStep \/ InnerExit \/ Return

Spec == Init /\ [][Next]_vars

(***************************************************************************)
(* Properties of partition_region.                                         *)
(***************************************************************************)
\* Coordinates are compared up to Tolerance degrees (2^-13, some four
\* units in the last place of the geometry format at 180 degrees).
Tolerance == FRound(1, 1, -13, FALSE)
Near(a, b) == FLe(FAbs(FSub(a, b)), Tolerance)
CoordNear(p, q) == Near(p.x, q.x) /\ Near(p.y, q.y)
RectNear(r, q) == CoordNear(r.min, q.min) /\ CoordNear(r.max, q.max)

\* The polygon is all of its bounding box.
FillsBoundingBox(poly) == poly.holes = {}

\* The rectangle lies in the polygon: within the bounding box, and reaching
\* into no hole by more than Tolerance.
ReachesInto(r, h) ==
  /\ FGt(FSub(FMin(r.max.x, h.max.x), FMax(r.min.x, h.min.x)), Tolerance)
  /\ FGt(FSub(FMin(r.max.y, h.max.y), FMax(r.min.y, h.min.y)), Tolerance)
Inside(r, poly) ==
  /\ FGe(r.min.x, FSub(bounding_rect(poly).min.x, Tolerance))
  /\ FGe(r.min.y, FSub(bounding_rect(poly).min.y, Tolerance))
  /\ FLe(r.max.x, FAdd(bounding_rect(poly).max.x, Tolerance))
  /\ FLe(r.max.y, FAdd(bounding_rect(poly).max.y, Tolerance))
  /\ \A h \in poly.holes : ~ReachesInto(r, h)

NonPositive(x) == ~XLt(XZero, x)

\* C1: with edge_proportion <= 0 the call is rejected before any sweep step:
\* the loops are never entered and no cell is ever examined.
C1_RejectedBeforeSweep ==
  NonPositive(edge_proportion) => (pc \in {"entry", "outer"} /\ steps = 0)

\* C2: with edge_proportion >= 1 and no threshold, the call returns exactly
\* one cell and that cell is the polygon's bounding box.
C2_SingleBoundingBoxCell ==
  (pc = "done" /\ ~area_threshold.some /\ ~XLt(edge_proportion, XOne))
    => (Len(partitions) = 1 /\ RectNear(partitions[1], bbox))

\* C3: for a polygon that fills its bounding box, no threshold and
\* edge_proportion 1/2 or 1/3, the call returns 4 resp. 9 cells, every
\* candidate among them, and each one intersects the polygon.
C3_KSquaredCells ==
  (pc = "done" /\ FillsBoundingBox(polygon) /\ ~area_threshold.some
     /\ edge_proportion \in {XHalf, XThird})
    => /\ Len(partitions) = (IF edge_proportion = XHalf THEN 4 ELSE 9)
       /\ partitions = candidates
       /\ \A i \in 1..Len(partitions) : intersects(partitions[i], polygon)

C3_Witness ==
  /\ pc = "done" /\ polygon = Square /\ ~area_threshold.some
  /\ edge_proportion = XThird /\ Len(partitions) = 9

\* C4: for a polygon that fills its bounding box, no threshold and
\* edge_proportion 0.33 or 0.3, the call returns exactly 9 cells.
C4_NineCells ==
  (pc = "done" /\ FillsBoundingBox(polygon) /\ ~area_threshold.some
     /\ edge_proportion \in {X033, X03})
    => Len(partitions) = 9

\* The cell passes the threshold given.
Kept(cell) == FGe(area_ratio(polygon, cell), area_threshold.v)

\* C10: with a threshold, the cells returned are exactly the candidates whose
\* intersection area / cell area is >= the threshold, in order; with
\* threshold 1.0 every cell returned lies inside the polygon.
C10_ThresholdSelection ==
  area_threshold.some =>
    /\ partitions = SelectSeq(candidates, Kept)
    /\ FEq(area_threshold.v, FOne) =>
         \A i \in 1..Len(partitions) : Inside(partitions[i], polygon)

C10_Witness ==
  /\ pc = "done" /\ area_threshold.some /\ FEq(area_threshold.v, FOne)
  /\ Len(partitions) > 0 /\ Len(partitions) < Len(candidates)

\* The cell and the polygon have a point in common.
Meets(cell) == intersects(cell, polygon)

\* C11: without a threshold, the cells returned are exactly the candidates
\* of the sweep that intersect the polygon: each cell returned intersects
\* it, and each candidate that intersects it is returned.
C11_IntersectionSelection ==
  ~area_threshold.some => partitions = SelectSeq(candidates, Meets)

C11_Witness ==
  /\ pc = "done" /\ ~area_threshold.some /\ polygon = LShape
  /\ Len(partitions) > 0 /\ Len(partitions) < Len(candidates)

\* The candidate passes the criterion of the call.
KeptCandidate(cell) == Selected(polygon, cell, area_threshold)
\* <<i, j>> comes before <<k, l>> in the sweep.
Before(a, b) == a[1] < b[1] \/ (a[1] = b[1] /\ a[2] < b[2])

\* C12: the sequence returned holds the kept candidates in sweep order: the
\* candidates are made outer pass by outer pass and, within a pass, by
\* increasing inner step; the cells returned are the kept ones among them in
\* that order, and on return no cell occurs twice.
C12_SweepOrder ==
  /\ Len(sweep.grid) = Len(candidates)
  /\ \A k, l \in 1..Len(sweep.grid) : k < l => Before(sweep.grid[k], sweep.grid[l])
  /\ partitions = SelectSeq(candidates, KeptCandidate)
  /\ pc = "done" =>
       \A k, l \in 1..Len(partitions) : k < l => partitions[k] # partitions[l]

C12_Witness ==
  /\ pc = "done" /\ Len(partitions) = 3 /\ Len(candidates) = 4
  /\ sweep.grid = <<(<<0, 0>>), <<0, 1>>, <<1, 0>>, <<1, 1>>>>
  /\ partitions = <<candidates[1], candidates[2], candidates[3]>>

\* k * x as the counters reach it: x added k times to 0.0.
RECURSIVE Times(_, _)
Times(k, x) == IF k = 0 THEN XZero ELSE XAdd(Times(k - 1, x), x)
\* lp_i: the line from lerp((i+1)*ep, c0, c1) to lerp((i+1)*ep, c3, c2).
LpAt(i) ==
  Line(l01_lerp(XToF(Times(i + 1, edge_proportion))),
       l32_lerp(XToF(Times(i + 1, edge_proportion))))
\* lpPrev_i: the line c0 -> c3 for i = 0, and lp_(i-1) after that.
LpPrevAt(i) == IF i = 0 THEN Line(c0, c3) ELSE LpAt(i - 1)
\* The rectangle spanned by lerp(j*ep, prev) and lerp((j+1)*ep, cur).
CellOf(j, prev, cur) ==
  Rect_new(lerp(XToF(Times(j, edge_proportion)), prev.start, prev.end),
           lerp(XToF(Times(j + 1, edge_proportion)), cur.start, cur.end))

\* C19: throughout the inner sweep of outer step i, lp_prev is lpPrev_i and
\* lp is lp_i, and the candidate made at inner step j is the rectangle
\* spanned by lerp(j*ep, lpPrev_i.start, lpPrev_i.end) and
\* lerp((j+1)*ep, lp_i.start, lp_i.end).
C19_CandidateCell ==
  pc = "inner" =>
    \E prev \in {LpPrevAt(sweep.i)}, cur \in {LpAt(sweep.i)} :
      /\ lp_prev = prev /\ lp = cur
      /\ sweep.j > 0 =>
           /\ sweep.grid[Len(sweep.grid)] = <<sweep.i, sweep.j - 1>>
           /\ candidates[Len(candidates)] = CellOf(sweep.j - 1, prev, cur)

C19_Witness ==
  /\ pc = "inner" /\ sweep.i = 2 /\ sweep.j = 3 /\ edge_proportion = XThird
  /\ polygon = WideSquare /\ Len(candidates) = 9
  /\ candidates[9] = CellOf(2, LpAt(1), LpAt(2))

(***************************************************************************)
(* lerp called on its own: t and the two coordinates are drawn from the    *)
(* sets below, which hold the poles, the +/-180 meridian, antipodal pairs  *)
(* and values of t outside [0, 1].                                         *)
(***************************************************************************)
Deg(x, y) == Coord(FInt(x), FInt(y))
LerpCoords == {Deg(0, 0), Deg(180, 0), Deg(-180, 45), Deg(50, 90), Deg(20, -90),
               Deg(10, 10), Deg(-120, 33), Deg(60, -33)}

\* 2^k
FPow2(k) == FPack(1, Pow2(MantBits - 1), k - (MantBits - 1))
\* The largest |t| of the amended C6.
TLimit == FPow2(1000)
\* t: 0, 1, 1/2, 1/3, 2, -1/2, 2^1000, 2^1023
LerpTs == {FZero(1), FOne, FHalf, FDiv(FOne, FInt(3)), FInt(2), FNeg(FHalf),
           TLimit, FPow2(EMax)}

InitLerp ==
  /\ pc = "lerp"
  /\ args \in [t : LerpTs, c1 : LerpCoords, c2 : LerpCoords]
  /\ result = NoResult /\ sampler = NoSampler /\ runs = NoRuns /\ drawn = NoDraw
  /\ polygon = Square /\ edge_proportion = XOne /\ area_threshold = None
  /\ fx = XZero /\ fy = XZero /\ lp_prev = NoLine /\ lp = NoLine
  /\ partitions = <<>> /\ candidates = <<>> /\ steps = 0 /\ sweep = NoSweep

\* geom.rs lines 16-24: the call returns.
Lerp ==
  /\ pc = "lerp"
  /\ result' = lerp(args.t, args.c1, args.c2)
  /\ pc' = "lerped"
  /\ UNCHANGED <<partVars, args, sampler, runs, drawn>>

SpecLerp == InitLerp /\ [][Lerp]_vars

\* The blended vector of the call and its divisor.
ArgsBlend == Blend(args.t, FromCoord(args.c1), FromCoord(args.c2))
Antipodal(p, q) == IsZero(FAdd(p.y, q.y)) /\ FEq(FAbs(FSub(p.x, q.x)), FInt(180))

\* C5: lerp(0, c1, c2) is c1 and lerp(1, c1, c2) is c2, up to Tolerance in
\* longitude and in latitude, poles and the +/-180 meridian included.
C5_Endpoints ==
  pc = "lerped" =>
    /\ IsZero(args.t) => CoordNear(result, args.c1)
    /\ FEq(args.t, FOne) => CoordNear(result, args.c2)

C5_Witness ==
  /\ pc = "lerped" /\ FEq(args.t, FOne)
  /\ args.c1 = Deg(-180, 45) /\ args.c2 = Deg(50, 90)
  /\ result = Deg(50, 90)

\* The call returned finite numbers, having divided by a positive number.
Defined ==
  /\ FGt(Divisor(ArgsBlend), FZero(1))
  /\ IsFinite(result.x) /\ IsFinite(result.y)

\* C6 as stated: for every t and every pair of coordinates the divisor is
\* strictly positive and the longitude and latitude returned are finite.
C6_NeverNaN == pc = "lerped" => Defined

\* C6 amended: the same for every t with |t| <= 2^1000.
C6_NeverNaNBounded ==
  (pc = "lerped" /\ FLe(FAbs(args.t), TLimit)) => Defined

C6_Witness ==
  /\ pc = "lerped" /\ args.t = FHalf /\ Antipodal(args.c1, args.c2)
  /\ Defined

\* |norm(v) - 1| <= 2^-19, two units in the last place of the geometry
\* format at 1.
UnitNorm(v) == FLe(FAbs(FSub(norm(v), FOne)), FPow2(-19))
\* 0 <= t <= 1
InUnitInterval(t) == FGe(t, FZero(1)) /\ FLe(t, FOne)

\* C17: for every t in [0, 1] the n-vector of the coordinate lerp returns
\* has norm 1, as has the n-vector of each of the two coordinates given.
C17_UnitNorm ==
  (pc = "lerped" /\ InUnitInterval(args.t)) =>
    /\ UnitNorm(FromCoord(result))
    /\ UnitNorm(FromCoord(args.c1)) /\ UnitNorm(FromCoord(args.c2))

C17_Witness ==
  /\ pc = "lerped" /\ args.t = FHalf /\ Antipodal(args.c1, args.c2)
  /\ UnitNorm(FromCoord(result)) /\ ~UnitNorm(Normalized(ArgsBlend))

(***************************************************************************)
(* samplers.rs.  A polygon is given by its triangulation (the triangles    *)
(* earcut_triangles_iter yields); the random generator is a choice among   *)
(* the values a draw can take.                                             *)
(***************************************************************************)
MIN_LAT == -90
MAX_LAT == 90
MIN_LNG == -180
MAX_LNG == 180

\* geo_types::Triangle: its three vertices.
Triangle(a, b, c) == <<a, b, c>>

\* Triangle::unsigned_area: half the absolute cross product of two sides.
unsigned_area(tri) ==
  FAbs(FMul(FHalf,
            FSub(FMul(FSub(tri[2].x, tri[1].x), FSub(tri[3].y, tri[1].y)),
                 FMul(FSub(tri[3].x, tri[1].x), FSub(tri[2].y, tri[1].y)))))

\* `as f32`: the geometry format has no more mantissa bits than binary32, so
\* only the exponent range changes: overflow to infinity, underflow to zero.
AsF32(a) ==
  IF ~IsFinite(a) \/ IsZero(a) THEN a
  ELSE IF a.e + MantBits - 1 > 127 THEN FInf(a.s)
  ELSE IF a.e + MantBits - 1 < -126 THEN FZero(a.s)
  ELSE a

\* cum_area after the first i triangles.
RECURSIVE cum_area(_, _)
cum_area(triangulation, i) ==
  IF i = 0 THEN FZero(1)
  ELSE FAdd(cum_area(triangulation, i - 1), AsF32(unsigned_area(triangulation[i])))

\* The areas themselves, not divided.
Weights_raw(triangulation, total) ==
  [i \in 1..Len(triangulation) |-> AsF32(unsigned_area(triangulation[i]))]

\* areas.iter().map(|a| a / cum_area)
Weights(triangulation, total) ==
  [i \in 1..Len(triangulation) |-> FDiv(AsF32(unsigned_area(triangulation[i])), total)]

\* PolygonalSampler::new
PolygonalSampler_new(triangulation) ==
  [triangulation |-> triangulation,
   walker_table  |-> Weights(triangulation, cum_area(triangulation, Len(triangulation)))]

\* The table drawing any of its indices.
next_rng_any(walker_table) == DOMAIN walker_table

\* WalkerTable::next_rng: an index, drawn with probability proportional to
\* its weight; any index when no weight is a positive number.
next_rng(walker_table) ==
  IF \E i \in DOMAIN walker_table : FGt(walker_table[i], FZero(1))
  THEN {i \in DOMAIN walker_table : FGt(walker_table[i], FZero(1))}
  ELSE DOMAIN walker_table

\* The weight of the second vertex without its factor r1_sqrt.
weight_b_unscaled(r1_sqrt, r2) == FSub(FOne, r2)

\* The weight of the third vertex taken with 1.0 - r2 in place of r2.
weight_c_complement(r1_sqrt, r2) == FMul(FSub(FOne, r2), r1_sqrt)

\* The three vertex weights: 1.0 - r1_sqrt, r1_sqrt * (1.0 - r2), r2 * r1_sqrt
weight_a(r1_sqrt) == FSub(FOne, r1_sqrt)
weight_b(r1_sqrt, r2) == FMul(r1_sqrt, FSub(FOne, r2))
weight_c(r1_sqrt, r2) == FMul(r2, r1_sqrt)

\* (1.0 - r1_sqrt) * na + r1_sqrt * (1.0 - r2) * nb + r2 * r1_sqrt * nc
Barycentric(r1_sqrt, r2, na, nb, nc) ==
  VAdd(VAdd(Scale(weight_a(r1_sqrt), na),
            Scale(weight_b(r1_sqrt, r2), nb)),
       Scale(weight_c(r1_sqrt, r2), nc))

\* sample_point_in_triangle, u1 and u2 the two draws from [0, 1].
sample_point_in_triangle(u1, u2, triangle) ==
  IntoCoord(Barycentric(FSqrt(u1), u2, FromCoord(triangle[1]),
                        FromCoord(triangle[2]), FromCoord(triangle[3])))

\* Uniform::new(low, high).sample: low + (high - low) * u for a u in [0, 1).
UniformSample(low, high, u) == FAdd(FMul(u, FSub(FInt(high), FInt(low))), FInt(low))

\* n / 8
Eighths(n) == FDiv(FInt(n), FInt(8))
\* Draws from [0, 1] (with 1/5, which no binary fraction is) and from [0, 1).
UnitDraws == {Eighths(0), Eighths(2), Eighths(4), Eighths(8), FDiv(FInt(1), FInt(5))}
HalfOpenDraws == {Eighths(0), Eighths(2), Eighths(4), Eighths(6), Eighths(7)}

\* POLYGON((0 60, 90 60, 45 61, 0 60)): a wide triangle at a high latitude.
HighTriangle == <<Triangle(Deg(0, 60), Deg(90, 60), Deg(45, 61))>>
\* POLYGON((-120 70, 120 70, 0 85, -120 70))
ArcticTriangle == <<Triangle(Deg(-120, 70), Deg(120, 70), Deg(0, 85))>>
\* POLYGON((0 0, 10 0, 10 10, 0 10, 0 0)) cut along a diagonal.
EquatorSquare == <<Triangle(Deg(0, 0), Deg(10, 0), Deg(10, 10)),
                   Triangle(Deg(0, 0), Deg(10, 10), Deg(0, 10))>>
\* POLYGON((0 0, 5 5, 10 10, 0 0)): three points of a line, of area zero.
Collinear == <<Triangle(Deg(0, 0), Deg(5, 5), Deg(10, 10))>>
\* POLYGON((0 0, 5 0, 10 0, 10 10, 0 0)) cut at (10 0): its first triangle
\* has three points of a line.
Sliver == <<Triangle(Deg(0, 0), Deg(5, 0), Deg(10, 0)),
            Triangle(Deg(0, 0), Deg(10, 0), Deg(10, 10))>>
\* POLYGON EMPTY: earcut yields no triangle.
Empty == <<>>
Triangulations == {HighTriangle, ArcticTriangle, EquatorSquare, Collinear, Sliver, Empty}

InitSampler ==
  /\ \/ pc = "new" /\ args \in [triangulation : Triangulations]
     \/ pc = "uniform" /\ args = NoArgs
  /\ sampler = NoSampler /\ result = NoResult /\ runs = NoRuns /\ drawn = NoDraw
  /\ polygon = Square /\ edge_proportion = XOne /\ area_threshold = None
  /\ fx = XZero /\ fy = XZero /\ lp_prev = NoLine /\ lp = NoLine
  /\ partitions = <<>> /\ candidates = <<>> /\ steps = 0 /\ sweep = NoSweep

\* samplers.rs lines 59-79
New ==
  /\ pc = "new"
  /\ sampler' = PolygonalSampler_new(args.triangulation)
  /\ pc' = "ready"
  /\ UNCHANGED <<partVars, args, result, runs, drawn>>

\* samplers.rs lines 52-56
PolygonalSampleCoord ==
  /\ pc = "ready"
  /\ \E i \in next_rng(sampler.walker_table), u1 \in UnitDraws, u2 \in UnitDraws :
       /\ result' = sample_point_in_triangle(u1, u2, sampler.triangulation[i])
       /\ drawn' = [i |-> i, u1 |-> u1, u2 |-> u2]
  /\ UNCHANGED <<pc, partVars, args, sampler, runs>>

\* samplers.rs lines 28-35
UniformSampleCoord ==
  /\ pc = "uniform"
  /\ \E u1 \in HalfOpenDraws, u2 \in HalfOpenDraws :
       result' = [x |-> UniformSample(MIN_LAT, MAX_LAT, u1),
                  y |-> UniformSample(MIN_LNG, MAX_LNG, u2)]
  /\ UNCHANGED <<pc, partVars, args, sampler, runs, drawn>>

\* samplers.rs lines 72-73 on no triangle at all: what WalkerTableBuilder
\* does with an empty weight list is the crate's; it may build an empty
\* table (New) or panic.
NewPanics ==
  /\ pc = "new" /\ args.triangulation = Empty
  /\ pc' = "panicked"
  /\ UNCHANGED <<partVars, callVars>>

\* samplers.rs line 54 with an empty table: next_rng has no index to give;
\* whichever usize it returns, self.triangulation[..] is out of bounds and
\* panics (as does next_rng itself if it divides by the table's length).
SampleCoordPanics ==
  /\ pc = "ready" /\ sampler.triangulation = Empty
  /\ drawn' = [NoDraw EXCEPT !.i = 1]
  /\ pc' = "panicked"
  /\ UNCHANGED <<partVars, args, sampler, result, runs>>

NextSampler ==
  New \/ NewPanics \/ PolygonalSampleCoord \/ SampleCoordPanics \/ UniformSampleCoord

SpecSampler == InitSampler /\ [][NextSampler]_vars

(***************************************************************************)
(* Properties of the samplers.                                             *)
(***************************************************************************)
Returned == result # NoResult

\* The polygon's bounding box: the extreme coordinates of its vertices.
Vertices(triangulation) ==
  {triangulation[i][j] : i \in 1..Len(triangulation), j \in 1..3}
polygon_bounding_rect(triangulation) ==
  [min |-> Coord(FMinOf({v.x : v \in Vertices(triangulation)}),
                 FMinOf({v.y : v \in Vertices(triangulation)})),
   max |-> Coord(FMaxOf({v.x : v \in Vertices(triangulation)}),
                 FMaxOf({v.y : v \in Vertices(triangulation)}))]

\* The coordinate lies in the rectangle, up to Tolerance.
InRect(c, r) ==
  /\ FGe(c.x, FSub(r.min.x, Tolerance)) /\ FLe(c.x, FAdd(r.max.x, Tolerance))
  /\ FGe(c.y, FSub(r.min.y, Tolerance)) /\ FLe(c.y, FAdd(r.max.y, Tolerance))

TotalArea(triangulation) == cum_area(triangulation, Len(triangulation))

\* C7: every coordinate sampled from a polygon of non-zero area lies within
\* the polygon's bounding box.
C7_SampleInBoundingBox ==
  (pc = "ready" /\ Returned /\ ~IsZero(TotalArea(args.triangulation)))
    => InRect(result, polygon_bounding_rect(args.triangulation))

\* C8: for a polygon of total area zero, PolygonalSampler::new fails with
\* DegenerateWeights: no sampler is constructed and nothing is ever sampled.
C8_DegenerateWeightsRejected ==
  (pc \in {"new", "ready"} /\ IsZero(TotalArea(args.triangulation)))
    => (sampler = NoSampler /\ ~Returned)

\* C9: every coordinate sampled by UniformSampler has its longitude x in
\* [-180, 180] and its latitude y in [-90, 90].
C9_UniformLngLat ==
  (pc = "uniform" /\ Returned) =>
    /\ FGe(result.x, FInt(MIN_LNG)) /\ FLe(result.x, FInt(MAX_LNG))
    /\ FGe(result.y, FInt(MIN_LAT)) /\ FLe(result.y, FInt(MAX_LAT))

\* The triangle has no area.
ZeroArea(tri) == IsZero(AsF32(unsigned_area(tri)))

\* C15: in a sampler built from a polygon of positive total area, a triangle
\* of area zero has weight zero, and the triangle a sample is drawn from is
\* never one of area zero.
C15_ZeroAreaNeverSampled ==
  (pc = "ready" /\ FGt(TotalArea(args.triangulation), FZero(1))) =>
    /\ \A i \in 1..Len(sampler.triangulation) :
         ZeroArea(sampler.triangulation[i]) => IsZero(sampler.walker_table[i])
    /\ Returned => ~ZeroArea(sampler.triangulation[drawn.i])

C15_Witness ==
  /\ pc = "ready" /\ args.triangulation = Sliver /\ Returned /\ drawn.i = 2
  /\ ZeroArea(sampler.triangulation[1]) /\ IsZero(sampler.walker_table[1])
  /\ sampler.walker_table[2] = FOne

\* The sum of the first i weights.
RECURSIVE SumWeights(_, _)
SumWeights(w, i) == IF i = 0 THEN FZero(1) ELSE FAdd(SumWeights(w, i - 1), w[i])
\* w_i : w_j is area_i : area_j.
Proportional(wi, wj, ai, aj) == Near(FMul(wi, aj), FMul(wj, ai))

\* C16: in a sampler built from a polygon of positive total area the weights
\* given to the table are proportional to the triangles' unsigned areas and
\* sum to 1 (weight_i is area_i / total area), and an index the table draws
\* has a positive weight.
C16_WeightsProportionalToArea ==
  (pc = "ready" /\ FGt(TotalArea(args.triangulation), FZero(1))) =>
    /\ Near(SumWeights(sampler.walker_table, Len(sampler.walker_table)), FOne)
    /\ \A i, j \in 1..Len(sampler.triangulation) :
         Proportional(sampler.walker_table[i], sampler.walker_table[j],
                      AsF32(unsigned_area(sampler.triangulation[i])),
                      AsF32(unsigned_area(sampler.triangulation[j])))
    /\ Returned => FGt(sampler.walker_table[drawn.i], FZero(1))

C16_Witness ==
  /\ pc = "ready" /\ args.triangulation = EquatorSquare /\ Returned /\ drawn.i = 2
  /\ sampler.walker_table = <<FHalf, FHalf>>

\* The vertex weights of the last sample.
DrawnWeights ==
  <<weight_a(FSqrt(drawn.u1)), weight_b(FSqrt(drawn.u1), drawn.u2),
    weight_c(FSqrt(drawn.u1), drawn.u2)>>
WeightSum(w) == FAdd(FAdd(w[1], w[2]), w[3])
\* Each weight is in [0, 1], the three sum to 1 up to tol, and they are
\* applied to the vertices 0, 1, 2 in this order: a weight of 1 returns its
\* vertex.
WeightsAsStated(w, tri, tol) ==
  /\ \A k \in 1..3 : InUnitInterval(w[k])
  /\ FLe(FAbs(FSub(WeightSum(w), FOne)), tol)
  /\ w[1] = FOne => CoordNear(result, tri[1])
  /\ w[2] = FOne => CoordNear(result, tri[2])
  /\ w[3] = FOne => CoordNear(result, tri[3])

BlendOf(u1, u2, tri) ==
  Barycentric(FSqrt(u1), u2, FromCoord(tri[1]), FromCoord(tri[2]), FromCoord(tri[3]))
DrawnBlend == BlendOf(drawn.u1, drawn.u2, sampler.triangulation[drawn.i])
\* v / norm(v)
Renormalized(v) == Scale(FDiv(FOne, norm(v)), v)
NonZero(v) == ~(IsZero(v.x) /\ IsZero(v.y) /\ IsZero(v.z))

RngMod == 16
MaxSamples == 2
Runs == {1, 2}
Seeds == {0, 1, 7}

\* --wkt: absent, a polygon (given by its triangulation), a geometry that
\* is no polygon, or a text that is no WKT.
Wkt(kind, triangulation) == [kind |-> kind, triangulation |-> triangulation]
Wkts == {Wkt("None", <<>>), Wkt("Polygon", EquatorSquare), Wkt("Polygon", HighTriangle),
         Wkt("Point", <<>>), Wkt("Invalid", <<>>)}

\* StdRng::seed_from_u64(seed)
create_rng(seed) == seed % RngMod
\* The generator after one draw.
rng_next(s) == (5 * s + 3) % RngMod
\* Uniform::new(0.0, 1.0) and Uniform::new_inclusive(0.0, 1.0), sampled from
\* the generator in state s.
unit(s) == FDiv(FInt(s), FInt(RngMod))
unit_inclusive(s) == FDiv(FInt(s), FInt(RngMod - 1))

\* WalkerTable::next_rng(rng): the index whose share of the weights holds
\* the draw u; any index when no weight is a positive number.
RECURSIVE walker_index(_, _, _, _)
walker_index(w, u, i, acc) ==
  IF i >= Len(w) THEN Len(w)
  ELSE IF FLt(u, FAdd(acc, w[i])) THEN i
  ELSE walker_index(w, u, i + 1, FAdd(acc, w[i]))
next_rng_seeded(walker_table, s) ==
  IF \E i \in DOMAIN walker_table : FGt(walker_table[i], FZero(1))
  THEN walker_index(walker_table, unit(s), 1, FZero(1))
  ELSE (s % Len(walker_table)) + 1

\* UniformSampler.sample_coord(&mut rng)
uniform_sample_coord(s) ==
  [x |-> UniformSample(MIN_LAT, MAX_LAT, unit(s)),
   y |-> UniformSample(MIN_LNG, MAX_LNG, unit(rng_next(s)))]
\* PolygonalSampler::sample_coord(&self, &mut rng)
polygonal_sample_coord(self, s) ==
  sample_point_in_triangle(unit_inclusive(rng_next(s)),
                           unit_inclusive(rng_next(rng_next(s))),
                           self.triangulation[next_rng_seeded(self.walker_table, s)])
\* sampler.sample_coord(&mut rng), and the generator after it.
sample_coord(self, s) ==
  IF self = NoSampler THEN uniform_sample_coord(s) ELSE polygonal_sample_coord(self, s)
rng_after(self, s) ==
  IF self = NoSampler THEN rng_next(rng_next(s)) ELSE rng_next(rng_next(rng_next(s)))

\* The sampler with its table cleared by the call.
shared_borrow_cleared(self) ==
  IF self = NoSampler THEN self
  ELSE [self EXCEPT !.walker_table = [i \in DOMAIN @ |-> FZero(1)]]
\* &self: the sampler after a call that borrows it.
shared_borrow(self) == self

\* One generator for both calls: that of the first.
rng_shared(r) == runs[1].rng
\* &mut rng: the generator the call passes on, its own.
rng_of(r) == runs[r].rng

NewRun == [pc |-> "call", rng |-> 0, sampler |-> NoSampler, coords |-> <<>>,
           output |-> NoResult, ret |-> "none"]

InitRand ==
  /\ pc = "rand"
  /\ args \in [seed : Seeds, wkt : Wkts, num_samples : 0..MaxSamples]
  /\ runs = [r \in Runs |-> NewRun]
  /\ sampler = NoSampler /\ result = NoResult /\ drawn = NoDraw
  /\ polygon = Square /\ edge_proportion = XOne /\ area_threshold = None
  /\ fx = XZero /\ fy = XZero /\ lp_prev = NoLine /\ lp = NoLine
  /\ partitions = <<>> /\ candidates = <<>> /\ steps = 0 /\ sweep = NoSweep

\* Lines 48, 62-63: the generator is seeded; with --wkt the text is parsed,
\* converted to a Polygon and the sampler built, or the error is returned.
RandBegin(r) ==
  /\ pc = "rand" /\ runs[r].pc = "call"
  /\ runs' = [runs EXCEPT ![r] =
       IF args.wkt.kind = "None"
       THEN [@ EXCEPT !.pc = "sampling", !.rng = create_rng(args.seed)]
       ELSE IF args.wkt.kind = "Polygon"
       THEN [@ EXCEPT !.pc = "sampling", !.rng = create_rng(args.seed),
                      !.sampler = PolygonalSampler_new(args.wkt.triangulation)]
       ELSE [@ EXCEPT !.pc = "returned", !.rng = create_rng(args.seed), !.ret = "Err"]]
  /\ UNCHANGED <<pc, partVars, args, sampler, result, drawn>>

\* Lines 57-59, 64-66: one sample of the map over 0..num_samples.
RandSample(r) ==
  /\ pc = "rand" /\ runs[r].pc = "sampling"
  /\ Len(runs[r].coords) < args.num_samples
  /\ \E c \in {sample_coord(runs[r].sampler, rng_of(r))} :
       runs' = [runs EXCEPT ![r] =
                  [@ EXCEPT !.coords = Append(@, c),
                            !.rng = rng_after(runs[r].sampler, rng_of(r)),
                            !.sampler = shared_borrow(@)]]
  /\ UNCHANGED <<pc, partVars, args, sampler, result, drawn>>

\* Lines 70-76, 80: the samples are printed and Ok(()) is returned.
RandEmit(r) ==
  /\ pc = "rand" /\ runs[r].pc = "sampling"
  /\ Len(runs[r].coords) = args.num_samples
  /\ runs' = [runs EXCEPT ![r] =
                [@ EXCEPT !.pc = "returned", !.output = [samples |-> runs[r].coords],
                          !.ret = "Ok"]]
  /\ UNCHANGED <<pc, partVars, args, sampler, result, drawn>>

NextRand == \E r \in Runs : RandBegin(r) \/ RandSample(r) \/ RandEmit(r)

SpecRand == InitRand /\ [][NextRand]_vars

(***************************************************************************)
(* Properties of handle_rand_subcommand.                                   *)
(***************************************************************************)
\* C13: a PolygonalSampler is not changed after its construction: a call of
\* sample_coord leaves its triangulation and its table as they were, so that
\* every sample is drawn from the sampler as PolygonalSampler::new built it;
\* only the generator advances.
C13_SamplerImmutable ==
  \A r \in Runs :
    (pc = "rand" /\ runs[r].pc # "call" /\ args.wkt.kind = "Polygon")
      => runs[r].sampler = PolygonalSampler_new(args.wkt.triangulation)

C13_Witness ==
  /\ pc = "rand" /\ args.wkt.kind = "Polygon" /\ runs[1].pc = "returned"
  /\ Len(runs[1].coords) = 2 /\ runs[1].rng # create_rng(args.seed)
  /\ runs[1].sampler = PolygonalSampler_new(args.wkt.triangulation)

Handlers == {"geom_cmd", "main"}
Kinds == {"Polygon", "MultiPolygon", "Invalid"}

InitSplit ==
  /\ pc = "split"
  /\ args \in [handler : Handlers, kind : Kinds]
  /\ polygon \in {Square, LShape}
  /\ edge_proportion \in {XHalf, XThird}
  /\ area_threshold \in {None, Some(FHalf)}
  /\ fx = XZero /\ fy = XZero /\ lp_prev = NoLine /\ lp = NoLine
  /\ partitions = <<>> /\ candidates = <<>> /\ steps = 0 /\ sweep = NoSweep
  /\ sampler = NoSampler /\ result = NoResult /\ runs = NoRuns /\ drawn = NoDraw

\* try_from_wkt_str(wkt)? fails, or (geom_cmd.rs line 72) geometry.try_into()?
ConversionFails ==
  args.kind = "Invalid" \/ (args.handler = "geom_cmd" /\ args.kind # "Polygon")

\* geom_cmd.rs lines 71-72, main.rs line 458: the error is returned.
SplitFail ==
  /\ pc = "split" /\ ConversionFails
  /\ result' = [ret |-> "Err", printed |-> FALSE, output |-> <<>>]
  /\ pc' = "returned"
  /\ UNCHANGED <<partVars, args, sampler, runs, drawn>>

\* geom_cmd.rs line 73, main.rs line 459: partition_region is called.
SplitCall ==
  /\ pc = "split" /\ ~ConversionFails
  /\ pc' = "entry"
  /\ UNCHANGED <<partVars, callVars>>

\* main.rs line 316: the unwrap panics in the first pass of the inner loop.
InnerPanic ==
  /\ pc = "inner"
  /\ XLt(fy, edge_budget)
  /\ UnwrapFails
  /\ pc' = "panicked"
  /\ UNCHANGED <<partVars, callVars>>

\* geom_cmd.rs lines 73-77, main.rs line 460: the cells are printed.
SplitEmit ==
  /\ pc = "done" /\ args # NoArgs
  /\ result' = [ret |-> "Ok", printed |-> TRUE, output |-> partitions]
  /\ pc' = "returned"
  /\ UNCHANGED <<partVars, args, sampler, runs, drawn>>

NextSplit ==
  \/ SplitFail \/ SplitCall
  \/ Enter \/ OuterStep \/ InnerStep \/ InnerPanic \/ InnerExit \/ Return
  \/ SplitEmit

SpecSplit == InitSplit /\ [][NextSplit]_vars

\* C18 (Split): when the geometry is no Polygon the handler returns an error
\* to its caller and prints nothing: partition_region is not run on it, the
\* call does not panic, and what is returned is an error, with a threshold
\* and without.
C18_ConversionErrorReturned ==
  (pc # "split" /\ args.kind \in {"MultiPolygon", "Invalid"}) =>
    /\ pc = "returned"
    /\ result.ret = "Err" /\ ~result.printed

\* C18 (rand Point --wkt): when the geometry is no Polygon the call returns
\* an error, having sampled and printed nothing.
C18_RandConversionError ==
  \A r \in Runs :
    (pc = "rand" /\ args.wkt.kind \in {"Point", "Invalid"} /\ runs[r].pc # "call") =>
      /\ runs[r].pc = "returned" /\ runs[r].ret = "Err"
      /\ runs[r].coords = <<>> /\ runs[r].output = NoResult

(***************************************************************************)
(* cut_region: geom.rs 61-68, s2_cmd.rs 200-207, main.rs 352-361.  An S2   *)
(* cell is given by the polygon s2_cell_to_poly makes of its four          *)
(* vertices, here an axis-aligned rectangle in degrees.  The cells are     *)
(* taken one at a time, as the iterator chain does.                        *)
(***************************************************************************)
CutImpls == {"geom", "s2_cmd", "main"}
MaxCells == 2
\* Cells of a covering of the bounding box of Square and LShape; a covering
\* covers the box, so its cells can reach past it.
Cells == {IntRect(0, 0, 5, 5), IntRect(5, 0, 10, 5), IntRect(5, 5, 10, 10),
          IntRect(0, 2, 2, 4), IntRect(8, 8, 13, 13)}
CellLists == UNION {[1..n -> Cells] : n \in 1..MaxCells}

\* The rectangle two rectangles share (degenerate when they do not overlap).
Clip(r, q) ==
  [min |-> Coord(FMax(r.min.x, q.min.x), FMax(r.min.y, q.min.y)),
   max |-> Coord(FMin(r.max.x, q.max.x), FMin(r.max.y, q.max.y))]
Overlaps(r, q) == FGt(OverlapArea(r, q), FZero(1))

\* p.intersection(&polygon): the parts of the polygon clipped to the cell.
intersection(p, poly) ==
  [parts |-> [i \in 1..Len(SelectSeq(poly.parts, LAMBDA q : Overlaps(p, q))) |->
                Clip(p, SelectSeq(poly.parts, LAMBDA q : Overlaps(p, q))[i])],
   holes |-> {}]
\* s2_cell_to_poly: the cell as a polygon.
s2_cell_to_poly(cell) == [parts |-> <<cell>>, holes |-> {}]

\* geom.rs 61-68: map(s2_cell_to_poly), the intersection commented out.
cut_region(poly, cell) == <<s2_cell_to_poly(cell)>>
\* s2_cmd.rs 200-207: flat_map over the polygons of the intersection.
cut_region_s2_cmd(poly, cell) ==
  IF intersection(cell, poly).parts = <<>> THEN <<>> ELSE <<intersection(cell, poly)>>
\* main.rs 352-361: one (possibly empty) MultiPolygon for each cell.
cut_region_main(poly, cell) == <<intersection(cell, poly)>>

InitCut ==
  /\ pc = "cut"
  /\ args \in [impl : CutImpls, cells : CellLists]
  /\ polygon \in {Square, LShape}
  /\ edge_proportion = XOne /\ area_threshold = None
  /\ fx = XZero /\ fy = XZero /\ lp_prev = NoLine /\ lp = NoLine
  /\ partitions = <<>> /\ candidates = <<>> /\ steps = 0 /\ sweep = NoSweep
  /\ sampler = NoSampler /\ result = NoResult /\ runs = NoRuns /\ drawn = NoDraw

\* One element of s2_cells goes through the iterator chain.
CutCell ==
  /\ pc = "cut" /\ steps < Len(args.cells)
  /\ partitions' = partitions \o
       (CASE args.impl = "geom"   -> cut_region(polygon, args.cells[steps + 1])
          [] args.impl = "s2_cmd" -> cut_region_s2_cmd(polygon, args.cells[steps + 1])
          [] args.impl = "main"   -> cut_region_main(polygon, args.cells[steps + 1]))
  /\ steps' = steps + 1
  /\ UNCHANGED <<pc, polygon, edge_proportion, area_threshold, fx, fy, lp_prev, lp,
                 candidates, sweep, callVars>>

\* collect_vec() / GeometryCollection::new_from(cuts)
CutCollect ==
  /\ pc = "cut" /\ steps = Len(args.cells)
  /\ result' = [ret |-> "Ok", printed |-> FALSE, output |-> partitions]
  /\ pc' = "cut_done"
  /\ UNCHANGED <<partVars, args, sampler, runs, drawn>>

NextCut == CutCell \/ CutCollect

SpecCut == InitCut /\ [][NextCut]_vars

\* A rectangle lies in the polygon: the polygon covers all of its area.
Covered(r, poly) == FEq(intersection_area(poly, r, Len(poly.parts)), rect_area(r))
Within(r, cell) ==
  /\ FGe(r.min.x, cell.min.x) /\ FGe(r.min.y, cell.min.y)
  /\ FLe(r.max.x, cell.max.x) /\ FLe(r.max.y, cell.max.y)

\* C22: every polygon cut_region returns is contained in the input polygon
\* and in one of the given cells: it is the intersection, not the whole cell.
C22_CutsBoundedToPolygon ==
  (pc = "cut_done") =>
    \A k \in 1..Len(result.output) :
      \A i \in 1..Len(result.output[k].parts) :
        /\ Covered(result.output[k].parts[i], polygon)
        /\ \E c \in 1..Len(args.cells) : Within(result.output[k].parts[i], args.cells[c])

\* The same for the implementations of s2_cmd.rs and main.rs alone.
C22_IntersectingImplsBounded ==
  (args.impl # "geom") => C22_CutsBoundedToPolygon

(***************************************************************************)
(* Termination of partition_region.  The call is sequential code that      *)
(* keeps running until it returns: a step that can be taken is taken.      *)
(* This is WF_vars(Next), stated with ENABLED <<Next>>_vars written out as *)
(* the guards of the actions (CanStep).  Beside the states at entry, the sweep is      *)
(* followed from the state edge_proportion = 2^-60 reaches after 2^53      *)
(* passes of the inner loop of the first row: every one of those sums is   *)
(* exact, so fy = 2^53 * 2^-60 = 2^-7; with the polygon Corner none of the *)
(* cells passed so far touches the polygon and partitions is still empty.  *)
(* candidates, steps and sweep, which record the passes, count from there. *)
(***************************************************************************)
\* POLYGON((4 0, 10 0, 10 10, 0 10, 0 6, 4 6, 4 0)): its bounding box's
\* corner at the origin is left out.
Corner == [parts |-> <<IntRect(4, 0, 10, 10), IntRect(0, 6, 4, 10)>>,
           holes |-> {IntRect(0, 0, 4, 6)}]
XPow2(k) == XHex(1, <<0, 0, 0, 0, 0, 0, 0, 0, 0, 0, 0, 0, 0>>, k)

InitAbsorbed ==
  /\ pc = "inner"
  /\ polygon = Corner
  /\ edge_proportion = XPow2(-60)
  /\ area_threshold = None
  /\ fx = XZero /\ fy = XPow2(-7)
  /\ lp_prev = Line(c0, c3)
  /\ lp = Line(l01_lerp(XToF(XAdd(fx, edge_proportion))),
               l32_lerp(XToF(XAdd(fx, edge_proportion))))
  /\ partitions = <<>> /\ candidates = <<>> /\ steps = 0 /\ sweep = NoSweep
  /\ args = NoArgs /\ sampler = NoSampler /\ result = NoResult /\ runs = NoRuns /\ drawn = NoDraw

InitFair == Init \/ InitAbsorbed

\* A step of Next can be taken: the guards of Enter, OuterStep \/ Return,
\* InnerExit and InnerStep.
CanStep ==
  \/ pc \in {"entry", "outer"}
  \/ /\ pc = "inner"
     /\ \/ ~XLt(fy, edge_budget)
        \/ ~UnwrapFails /\ (XLt(fy, XAdd(fy, edge_proportion)) \/ steps < MaxSteps)

\* Steps are taken only where CanStep holds.
StepsOnlyWhereCanStep == [][CanStep]_vars

SpecFair == InitFair /\ [][Next]_vars /\ ([]<><<Next>>_vars \/ []<>~CanStep)

\* C23 as stated: for every edge_proportion > 0 each pass of the inner loop
\* strictly increases fy (and so the loops reach edge_budget and end).
C23_CountersStrictlyIncrease ==
  [][(InnerStep /\ XLt(XZero, edge_proportion)) => XLt(fy, fy')]_vars

\* C23 amended: for every edge_proportion >= 2^-53, the least increment no
\* counter below edge_budget absorbs, partition_region terminates.
C23_TerminatesAboveHalfUlp ==
  (pc = "entry" /\ ~XLt(edge_proportion, XPow2(-53))) ~> (pc = "done")

C23_Witness ==
  /\ pc = "done" /\ edge_proportion = X03 /\ polygon = WideSquare
  /\ steps = 16 /\ ~XLt(fx, edge_budget)

(***************************************************************************)
(* The number of cells examined: the sweep of Square for every             *)
(* edge_proportion above and for 0.1.                                      *)
(***************************************************************************)
\* 0.1 as binary64: 0x1.999999999999ap-4
X01 == XHex(1, <<9, 9, 9, 9, 9, 9, 9, 9, 9, 9, 9, 9, 10>>, -4)

InitGrid ==
  /\ pc = "entry"
  /\ polygon = Square
  /\ edge_proportion \in EdgeProportions \cup {X01}
  /\ area_threshold \in {None, Some(FHalf)}
  /\ fx = XZero /\ fy = XZero
  /\ lp_prev = NoLine /\ lp = NoLine
  /\ partitions = <<>> /\ candidates = <<>> /\ steps = 0 /\ sweep = NoSweep
  /\ args = NoArgs /\ sampler = NoSampler /\ result = NoResult /\ runs = NoRuns /\ drawn = NoDraw

SpecGrid == InitGrid /\ [][Next]_vars

\* n * x >= 1 in exact arithmetic, for a binary64 x in (0, 1) and n <= MaxN.
MaxN == 15
TimesAtLeastOne(n, x) == n * x.hi + ((n * x.lo) \div Limb) >= Pow2(25 - x.e)
\* The least positive integer n with n * edge_proportion >= max(1, edge_proportion).
LeastN(x) ==
  IF ~XLt(x, XOne) THEN 1
  ELSE CHOOSE n \in 1..MaxN :
         TimesAtLeastOne(n, x) /\ \A m \in 1..(n - 1) : ~TimesAtLeastOne(m, x)

\* C24: for edge_proportion > 0 the call examines exactly n * n candidate
\* cells, n the least positive integer with n * edge_proportion >=
\* max(1, edge_proportion), and returns at most n * n cells.
C24_NSquaredCandidates ==
  (pc = "done" /\ XLt(XZero, edge_proportion)) =>
    /\ Len(candidates) = LeastN(edge_proportion) * LeastN(edge_proportion)
    /\ Len(partitions) <= LeastN(edge_proportion) * LeastN(edge_proportion)

\* The same without 0.1 and 1/3: the count is n * n for the other values.
C24_NSquaredElsewhere ==
  (edge_proportion \notin {X01, XThird}) => C24_NSquaredCandidates

\* A rectangle within the polygon's bounding box, up to Tolerance.
InBoundingBox(r) ==
  /\ FGe(r.min.x, FSub(bbox.min.x, Tolerance)) /\ FGe(r.min.y, FSub(bbox.min.y, Tolerance))
  /\ FLe(r.max.x, FAdd(bbox.max.x, Tolerance)) /\ FLe(r.max.y, FAdd(bbox.max.y, Tolerance))
UnitProportion == XLt(XZero, edge_proportion) /\ ~XLt(XOne, edge_proportion)

\* The parameters passed to lerp up to this state: fx + edge_proportion for
\* lp, and fy, which after a pass is the fy + edge_proportion of that pass.
ParametersInUnitInterval ==
  (pc = "inner") => (~XLt(XOne, XAdd(fx, edge_proportion)) /\ ~XLt(XOne, fy))

\* C25: for 0 < edge_proportion <= 1 every parameter passed to lerp in the
\* sweep (fx + edge_proportion for lp, fy and fy + edge_proportion for the
\* corners) lies in [0, 1], and every candidate cell lies within the
\* bounding box.
C25_SweepStaysInBoundingBox ==
  UnitProportion =>
    /\ ParametersInUnitInterval
    /\ \A k \in 1..Len(candidates) : InBoundingBox(candidates[k])

\* The parameters alone, for the proportions whose multiples reach 1 exactly.
C25_ExactProportionsParameters ==
  (edge_proportion \in {XHalf, XThird, XOne}) => ParametersInUnitInterval

IsReturned(cell) == \E k \in 1..Len(partitions) : partitions[k] = cell
NonPositiveThreshold == area_threshold.some /\ FLe(area_threshold.v, FZero(1))

\* C26: with area_threshold = Some(th), th <= 0, every candidate cell of
\* non-zero area is returned, whether or not it intersects the polygon.
C26_NonPositiveThresholdKeepsAll ==
  NonPositiveThreshold =>
    \A k \in 1..Len(candidates) :
      FGt(rect_area(candidates[k]), FZero(1)) => IsReturned(candidates[k])

\* A returned cell that the default criterion would have dropped.
C26_Witness ==
  /\ pc = "done" /\ NonPositiveThreshold /\ polygon = LShape
  /\ Len(partitions) = Len(candidates)
  /\ \E k \in 1..Len(partitions) : ~intersects(partitions[k], polygon)

\* C27: the weighted table has as many entries as the triangulation has
\* triangles, every index drawn in sample_coord is within the triangulation,
\* and neither new nor sample_coord panics, the empty triangulation included.
C27_IndexInBounds ==
  /\ pc # "panicked"
  /\ (pc = "ready") =>
       /\ Len(sampler.walker_table) = Len(sampler.triangulation)
       /\ drawn.i <= Len(sampler.triangulation)

\* The same for the polygons that have at least one triangle.
C27_NonEmptyInBounds ==
  (pc \in {"ready", "panicked"} /\ args.triangulation # Empty) => C27_IndexInBounds

DrawnTriangle == sampler.triangulation[drawn.i]
DrawIs(u1, u2) == FEq(drawn.u1, u1) /\ FEq(drawn.u2, u2)

lerp_planar(t, a, b) ==
  Coord(FAdd(a.x, FMul(t, FSub(b.x, a.x))), FAdd(a.y, FMul(t, FSub(b.y, a.y))))
\* geos_rand.rs lines 26-34, over that file's own NVec (lines 126-196).
lerp_geos_rand(t, a, b) ==
  IntoCoord(Scale(FDiv(FOne, FAdd(norm(Blend(t, FromCoord(a), FromCoord(b))), Epsilon)),
                  Blend(t, FromCoord(a), FromCoord(b))))

InitPair ==
  /\ pc = "entry"
  /\ polygon \in {Square, LShape}
  /\ edge_proportion \in {XHalf, XThird, X03, XTwo}
  /\ area_threshold \in {None, Some(FHalf)}
  /\ fx = XZero /\ fy = XZero /\ lp_prev = NoLine /\ lp = NoLine
  /\ partitions = <<>> /\ candidates = <<>> /\ steps = 0 /\ sweep = NoSweep
  /\ args = NoArgs /\ sampler = NoSampler /\ result = NoResult /\ runs = NoRuns /\ drawn = NoDraw

\* main.rs lines 260-293: the locals before the outer loop.
MainEnter ==
  /\ pc = "done" /\ runs = NoRuns
  /\ runs' = [pc |-> "outer", fx |-> XZero, fy |-> XZero,
              lp_prev |-> Line(c0, c3), lp |-> NoLine, partitions |-> <<>>]
  /\ pc' = "main"
  /\ UNCHANGED <<partVars, args, sampler, result, drawn>>

\* main.rs lines 294-303
MainOuterStep ==
  /\ pc = "main" /\ runs.pc = "outer"
  /\ XLt(runs.fx, edge_budget)
  /\ runs' = [runs EXCEPT
       !.lp = Line(lerp_geos_rand(XToF(XAdd(runs.fx, edge_proportion)), c0, c1),
                   lerp_geos_rand(XToF(XAdd(runs.fx, edge_proportion)), c3, c2)),
       !.fy = XZero, !.pc = "inner"]
  /\ UNCHANGED <<pc, partVars, args, sampler, result, drawn>>

\* main.rs lines 306-309
partition_main ==
  Rect_new(lerp_geos_rand(XToF(runs.fy), runs.lp_prev.start, runs.lp_prev.end),
           lerp_geos_rand(XToF(XAdd(runs.fy, edge_proportion)), runs.lp.start, runs.lp.end))

\* main.rs lines 304-332: one pass of the inner loop; the geometry is a
\* Polygon, so try_into().unwrap() (line 316) gives the polygon and
\* intersects(&geometry) (line 326) is the polygon's.
MainInnerStep ==
  /\ pc = "main" /\ runs.pc = "inner"
  /\ XLt(runs.fy, edge_budget)
  /\ \E cell \in {partition_main} :
       runs' = [runs EXCEPT
         !.partitions = IF Selected(polygon, cell, area_threshold)
                        THEN push(@, cell) ELSE @,
         !.fy = XAdd(@, edge_proportion)]
  /\ UNCHANGED <<pc, partVars, args, sampler, result, drawn>>

\* main.rs lines 304, 334-335
MainInnerExit ==
  /\ pc = "main" /\ runs.pc = "inner"
  /\ ~XLt(runs.fy, edge_budget)
  /\ runs' = [runs EXCEPT !.fx = XAdd(@, edge_proportion), !.lp_prev = runs.lp, !.pc = "outer"]
  /\ UNCHANGED <<pc, partVars, args, sampler, result, drawn>>

\* main.rs lines 294, 337
MainReturn ==
  /\ pc = "main" /\ runs.pc = "outer"
  /\ ~XLt(runs.fx, edge_budget)
  /\ runs' = [runs EXCEPT !.pc = "done"]
  /\ UNCHANGED <<pc, partVars, args, sampler, result, drawn>>

NextPair ==
  \/ Enter \/ OuterStep \/ InnerStep \/ InnerExit \/ Return
  \/ MainEnter \/ MainOuterStep \/ MainInnerStep \/ MainInnerExit \/ MainReturn

SpecPair == InitPair /\ [][NextPair]_vars

\* C29: on a Polygon geometry main.rs's partition_region returns the same
\* cells in the same order as geom.rs's, and geos_rand::lerp gives what
\* geom::lerp gives on the arguments of the sweep.
C29_SamePartitions ==
  /\ (pc = "main" /\ runs.pc = "done") => runs.partitions = partitions
  /\ (pc = "main" /\ runs.pc = "inner") =>
       lerp_geos_rand(XToF(runs.fy), runs.lp.start, runs.lp.end)
         = lerp(XToF(runs.fy), runs.lp.start, runs.lp.end)

C29_Witness ==
  /\ pc = "main" /\ runs.pc = "done"
  /\ polygon = LShape /\ edge_proportion = XThird /\ area_threshold = Some(FHalf)
  /\ runs.partitions = partitions /\ Len(partitions) >= 3 /\ Len(partitions) < Len(candidates)

(***************************************************************************)
(* h3_cmd.rs: get_h3_covering (lines 343-392).  h3o is used by its         *)
(* contract: a LatLng holds radians, from_degrees converts, and to_cell    *)
(* gives the cell of the grid that holds the point.  The grid stands for   *)
(* the H3 cells of one resolution: here the cells are the squares of one   *)
(* degree, named by the degrees of their lower corner.  The cells found    *)
(* are collected in partitions.                                            *)
(***************************************************************************)
\* h3o::LatLng::from_radians / from_degrees
LatLng_from_radians(lat, lng) == [lat |-> lat, lng |-> lng]
LatLng_from_degrees(lat, lng) == LatLng_from_radians(to_radians(lat), to_radians(lng))
\* The whole degree at or below d.
WholeDegree(d) == CHOOSE k \in -181..180 : FLe(FInt(k), d) /\ FLt(d, FInt(k + 1))
\* LatLng::to_cell: the cell of the point of the sphere at ll.
to_cell(ll) ==
  LET c == IntoCoord(FromRadians(ll.lng, ll.lat, FCos(ll.lat)))
  IN [lat |-> WholeDegree(c.y), lng |-> WholeDegree(c.x)]

\* The point covering reading the coordinates as degrees.
get_h3_point_covering_degrees(point) == to_cell(LatLng_from_degrees(point.y, point.x))
\* Line 380: LatLng::from_radians(point.y(), point.x()).map(|c| c.to_cell(resolution))
get_h3_point_covering(point) == to_cell(LatLng_from_radians(point.y, point.x))

\* The centre of a cell, in degrees.
Centre(lat, lng) == Coord(FDiv(FInt(2 * lng + 1), FInt(2)), FDiv(FInt(2 * lat + 1), FInt(2)))
\* Lines 388-390: Polygon::from_degrees, then to_cells: the cells whose
\* centre the polygon (a rectangle) contains.
get_h3_polygon_covering(rect) ==
  LET lo == LatLng_from_degrees(rect.min.y, rect.min.x)
      hi == LatLng_from_degrees(rect.max.y, rect.max.x)
      Holds(ll) == /\ FLe(lo.lat, ll.lat) /\ FLe(ll.lat, hi.lat)
                   /\ FLe(lo.lng, ll.lng) /\ FLe(ll.lng, hi.lng)
  IN {cell \in [lat : -1..4, lng : -1..4] :
        Holds(LatLng_from_degrees(Centre(cell.lat, cell.lng).y, Centre(cell.lat, cell.lng).x))}

H3Points == {Deg(0, 0)} \cup {Centre(j, i) : i \in 0..2, j \in 0..2}
H3MultiPoints == [1..2 -> {Deg(0, 0), Centre(0, 0), Centre(1, 2), Centre(2, 1), Centre(2, 2)}]
H3Polygons == {IntRect(0, 0, 3, 2), IntRect(1, 1, 3, 3)}

InitH3 ==
  /\ pc = "h3"
  /\ args \in [kind : {"Point"}, points : {<<p>> : p \in H3Points}]
          \cup [kind : {"MultiPoint"}, points : H3MultiPoints]
          \cup [kind : {"Polygon"}, points : {<<r>> : r \in H3Polygons}]
  /\ polygon = Square /\ edge_proportion = XOne /\ area_threshold = None
  /\ fx = XZero /\ fy = XZero /\ lp_prev = NoLine /\ lp = NoLine
  /\ partitions = <<>> /\ candidates = <<>> /\ steps = 0 /\ sweep = NoSweep
  /\ sampler = NoSampler /\ result = NoResult /\ runs = NoRuns /\ drawn = NoDraw

\* Lines 350-354: the Point, or the next point of the MultiPoint.
H3PointStep ==
  /\ pc = "h3" /\ args.kind \in {"Point", "MultiPoint"} /\ steps < Len(args.points)
  /\ partitions' = Append(partitions, get_h3_point_covering(args.points[steps + 1]))
  /\ steps' = steps + 1
  /\ UNCHANGED <<pc, polygon, edge_proportion, area_threshold, fx, fy, lp_prev, lp,
                 candidates, sweep, callVars>>

\* Line 357: the Polygon.
H3PolygonStep ==
  /\ pc = "h3" /\ args.kind = "Polygon" /\ steps < Len(args.points)
  /\ partitions' = <<get_h3_polygon_covering(args.points[steps + 1])>>
  /\ steps' = steps + 1
  /\ UNCHANGED <<pc, polygon, edge_proportion, area_threshold, fx, fy, lp_prev, lp,
                 candidates, sweep, callVars>>

\* The covering is returned.
H3Return ==
  /\ pc = "h3" /\ steps = Len(args.points)
  /\ result' = [ret |-> "Ok", printed |-> FALSE, output |-> partitions]
  /\ pc' = "h3_done"
  /\ UNCHANGED <<partVars, args, sampler, runs, drawn>>

NextH3 == H3PointStep \/ H3PolygonStep \/ H3Return

SpecH3 == InitH3 /\ [][NextH3]_vars

\* C30: a Point or MultiPoint given in degrees is mapped to the cell at
\* that latitude and longitude in degrees, as the vertices of a Polygon are
\* read in degrees.
C30_PointsReadInDegrees ==
  (pc = "h3_done" /\ args.kind \in {"Point", "MultiPoint"}) =>
    \A k \in 1..Len(args.points) :
      result.output[k] = get_h3_point_covering_degrees(args.points[k])

\* The polygon is read in degrees: its covering holds the cell of each cell
\* centre, read in degrees, that lies in it.
C30_PolygonsReadInDegrees ==
  (pc = "h3_done" /\ args.kind = "Polygon") =>
    /\ result.output[1] # {}
    /\ \A cell \in result.output[1] :
         get_h3_point_covering_degrees(Centre(cell.lat, cell.lng)) = cell
=============================================================================
